---- MODULE Spec2Model ----
(***************************************************************************)
(* ToyC front end (src/src/main.cpp): lexer, recursive-descent parser with *)
(* precedence climbing, code generation into an LLVM module, driver loop.  *)
(*                                                                         *)
(* Characters are one-character strings, text is a sequence of them.       *)
(* Names (identifiers, function names, argument names) are sequences of    *)
(* characters as well, so that the names LLVM makes up when a name is      *)
(* taken ("f" -> "f.1", "x" -> "x1") are ordinary names.                   *)
(***************************************************************************)
EXTENDS Integers, Sequences, FiniteSets, TLC

(***************************************************************************)
(* Characters                                                              *)
(***************************************************************************)
EOF == "EOF"

Alpha == {"a","b","c","d","e","f","g","h","i","j","k","l","m",
          "n","o","p","q","r","s","t","u","v","w","x","y","z"}

Digit == {"0","1","2","3","4","5","6","7","8","9"}

isspace(c) == c \in {" ", "\n", "\t"}

isalpha(c) == c \in Alpha

isdigit(c) == c \in Digit

isalnum(c) == isalpha(c) \/ isdigit(c)

DigitVal(c) == CASE c = "0" -> 0 [] c = "1" -> 1 [] c = "2" -> 2 [] c = "3" -> 3
                 [] c = "4" -> 4 [] c = "5" -> 5 [] c = "6" -> 6 [] c = "7" -> 7
                 [] c = "8" -> 8 [] c = "9" -> 9

DigitChar(d) == CASE d = 0 -> "0" [] d = 1 -> "1" [] d = 2 -> "2" [] d = 3 -> "3"
                  [] d = 4 -> "4" [] d = 5 -> "5" [] d = 6 -> "6" [] d = 7 -> "7"
                  [] d = 8 -> "8" [] d = 9 -> "9"

(***************************************************************************)
(* Lexer.  P is the record of the lexer's and parser's globals:            *)
(*   inp            what is left on stdin                                  *)
(*   nextChar       getok's static one-character lookahead                 *)
(*   identifierStr, numVal, CurTok                                         *)
(*   errs           the messages LogError has written, in order            *)
(* A token is "tok_eof", "tok_def", "tok_extern", "tok_indentifier",       *)
(* "tok_number", or the character itself.                                  *)
(***************************************************************************)
getchar(P) ==
    IF P.inp = <<>> THEN [P EXCEPT !.nextChar = EOF]
    ELSE [P EXCEPT !.nextChar = Head(P.inp), !.inp = Tail(P.inp)]

\* v under the name the operator F gives it: F(v).  The result of a call
\* that is used more than once is bound this way.
Bind(v, F(_)) == F(v)

RECURSIVE SkipSpace(_)
SkipSpace(P) == IF isspace(P.nextChar) THEN SkipSpace(getchar(P)) ELSE P

\* while(isalnum(nextChar = getchar())) identifierStr += nextChar;
RECURSIVE ReadAlnum(_)
ReadAlnum(P) ==
    Bind(getchar(P), LAMBDA Q :
        IF isalnum(Q.nextChar)
        THEN ReadAlnum([Q EXCEPT !.identifierStr = Append(@, Q.nextChar)])
        ELSE Q)

\* do { numStr += nextChar; nextChar = getchar(); } while(isdigit(nextChar) || nextChar == '.');
RECURSIVE ReadNum(_, _)
ReadNum(P, numStr) ==
    Bind(getchar(P), LAMBDA Q :
        IF isdigit(Q.nextChar) \/ Q.nextChar = "."
        THEN ReadNum(Q, Append(numStr, P.nextChar))
        ELSE [P |-> Q, numStr |-> Append(numStr, P.nextChar)])

RECURSIVE DigitsPrefix(_)
DigitsPrefix(s) ==
    IF s # <<>> /\ isdigit(Head(s)) THEN <<Head(s)>> \o DigitsPrefix(Tail(s)) ELSE <<>>

RECURSIVE DecimalValue(_)
DecimalValue(ds) ==
    IF ds = <<>> THEN 0
    ELSE 10 * DecimalValue(SubSeq(ds, 1, Len(ds) - 1)) + DigitVal(ds[Len(ds)])

\* strtod on a run of digits and dots: the longest prefix digits [. digits]
\* that holds a digit is converted, anything else gives 0.  The double is
\* kept as its integer part ip and the digits fp after the point.
strtod(s) ==
    LET ip   == DigitsPrefix(s)
        rest == SubSeq(s, Len(ip) + 1, Len(s))
        fp   == IF rest # <<>> /\ Head(rest) = "." THEN DigitsPrefix(Tail(rest)) ELSE <<>>
    IN  IF ip = <<>> /\ fp = <<>> THEN [ip |-> 0, fp |-> <<>>]
        ELSE [ip |-> DecimalValue(ip), fp |-> fp]

W_def == <<"d","e","f">>

W_extern == <<"e","x","t","e","r","n">>

getok(P0) ==
    Bind(SkipSpace(P0), LAMBDA P :
        IF isalpha(P.nextChar)
        THEN Bind(ReadAlnum([P EXCEPT !.identifierStr = <<P.nextChar>>]), LAMBDA Q :
                 [tok |-> IF Q.identifierStr = W_def THEN "tok_def"
                          ELSE IF Q.identifierStr = W_extern THEN "tok_extern"
                          ELSE "tok_indentifier",
                  P |-> Q])
        ELSE IF isdigit(P.nextChar) \/ P.nextChar = "."
        THEN Bind(ReadNum(P, <<>>), LAMBDA r :
                 [tok |-> "tok_number", P |-> [r.P EXCEPT !.numVal = strtod(r.numStr)]])
        ELSE IF P.nextChar = EOF
        THEN [tok |-> "tok_eof", P |-> P]
        ELSE [tok |-> P.nextChar, P |-> getchar(P)])

getNextToken(P) == Bind(getok(P), LAMBDA r : [r.P EXCEPT !.CurTok = r.tok])

(***************************************************************************)
(* Parser.  Every Parse* operator returns [ast, P]: the tree (NullAST for  *)
(* nullptr) and the globals after the call.                                *)
(***************************************************************************)
NullAST == [k |-> "Null"]

IsNull(a) == a.k = "Null"

NumberExprAST(Val) == [k |-> "Num", Val |-> Val]

VariableExprAST(Name) == [k |-> "Var", Name |-> Name]

BinaryExprAST(Op, LHS, RHS) == [k |-> "Bin", Op |-> Op, LHS |-> LHS, RHS |-> RHS]

CallExprAST(Callee, Args) == [k |-> "Call", Callee |-> Callee, Args |-> Args]

PrototypeAST(Name, Args) == [k |-> "Proto", Name |-> Name, Args |-> Args]

FunctionAST(Proto, Body) == [k |-> "Func", Proto |-> Proto, Body |-> Body]

LogError(P, Str) == [ast |-> NullAST, P |-> [P EXCEPT !.errs = Append(@, Str)]]

\* BinopPrecedence as main() fills it; operator[] gives 0 for any other key.
BinopPrecedence(c) ==
    CASE c = "<" -> 10 [] c = "+" -> 20 [] c = "-" -> 20 [] c = "*" -> 40 [] OTHER -> 0

isascii(tok) == tok \notin {"tok_eof", "tok_def", "tok_extern", "tok_indentifier", "tok_number"}

GetTokPrecedence(P) ==
    IF ~isascii(P.CurTok) THEN -1
    ELSE IF BinopPrecedence(P.CurTok) <= 0 THEN -1
    ELSE BinopPrecedence(P.CurTok)

RECURSIVE ParseExpression(_)
RECURSIVE ParsePrimary(_)
RECURSIVE ParseBinOpRHS(_, _, _)
RECURSIVE ParseCallArgs(_, _)

ParseNumberExpr(P) == [ast |-> NumberExprAST(P.numVal), P |-> getNextToken(P)]

ParseParenExpr(P) ==
    Bind(ParseExpression(getNextToken(P)), LAMBDA V :
        IF IsNull(V.ast) THEN V
        ELSE IF V.P.CurTok # ")" THEN LogError(V.P, "expected ')'")
        ELSE [ast |-> V.ast, P |-> getNextToken(V.P)])

\* The argument loop of ParseIdentifierExpr; Args are the arguments so far.
\* Returns [ok, Args, P], with CurTok = ")" when ok.
ParseCallArgs(P, Args) ==
    Bind(ParseExpression(P), LAMBDA Arg :
        IF IsNull(Arg.ast) THEN [ok |-> FALSE, Args |-> Args, P |-> Arg.P]
        ELSE IF Arg.P.CurTok = ")"
        THEN [ok |-> TRUE, Args |-> Append(Args, Arg.ast), P |-> Arg.P]
        ELSE IF Arg.P.CurTok # ","
        THEN [ok |-> FALSE, Args |-> Args,
              P |-> LogError(Arg.P, "Expected ')' or ',' in argument list").P]
        ELSE ParseCallArgs(getNextToken(Arg.P), Append(Args, Arg.ast)))

ParseIdentifierExpr(P0) ==
    Bind(getNextToken(P0), LAMBDA P :
        IF P.CurTok # "(" THEN [ast |-> VariableExprAST(P0.identifierStr), P |-> P]
        ELSE Bind(getNextToken(P), LAMBDA Q :
                 Bind(IF Q.CurTok # ")" THEN ParseCallArgs(Q, <<>>)
                      ELSE [ok |-> TRUE, Args |-> <<>>, P |-> Q], LAMBDA a :
                     IF ~a.ok THEN [ast |-> NullAST, P |-> a.P]
                     ELSE [ast |-> CallExprAST(P0.identifierStr, a.Args),
                           P |-> getNextToken(a.P)])))

ParsePrimary(P) ==
    CASE P.CurTok = "tok_indentifier" -> ParseIdentifierExpr(P)
      [] P.CurTok = "tok_number" -> ParseNumberExpr(P)
      [] P.CurTok = "(" -> ParseParenExpr(P)
      [] OTHER -> LogError(P, "unknown token when expecting an expression")

\* ParseBinOpRHS with the right-hand side parsed at TokPrec instead of
\* TokPrec + 1: the right operand then takes the following operators of the
\* precedence of its first one.
ParseBinOpRHS_SamePrec(ExprPrec, LHS, P) ==
    LET TokPrec == GetTokPrecedence(P)
        BinOp == P.CurTok
    IN  IF TokPrec < ExprPrec THEN [ast |-> LHS, P |-> P]
        ELSE Bind(ParsePrimary(getNextToken(P)), LAMBDA RHS :
                 IF IsNull(RHS.ast) THEN RHS
                 ELSE Bind(IF TokPrec < GetTokPrecedence(RHS.P)
                           THEN ParseBinOpRHS(TokPrec, RHS.ast, RHS.P)
                           ELSE RHS, LAMBDA R :
                          IF IsNull(R.ast) THEN R
                          ELSE ParseBinOpRHS(ExprPrec,
                                             BinaryExprAST(BinOp, LHS, R.ast), R.P)))

\* One turn of the loop is one call; TokPrec and BinOp are read before the
\* operator is eaten.
ParseBinOpRHS(ExprPrec, LHS, P) ==
    LET TokPrec == GetTokPrecedence(P)
        BinOp == P.CurTok
    IN  IF TokPrec < ExprPrec THEN [ast |-> LHS, P |-> P]
        ELSE Bind(ParsePrimary(getNextToken(P)), LAMBDA RHS :
                 IF IsNull(RHS.ast) THEN RHS
                 ELSE Bind(IF TokPrec < GetTokPrecedence(RHS.P)
                           THEN ParseBinOpRHS(TokPrec + 1, RHS.ast, RHS.P)
                           ELSE RHS, LAMBDA R :
                          IF IsNull(R.ast) THEN R
                          ELSE ParseBinOpRHS(ExprPrec,
                                             BinaryExprAST(BinOp, LHS, R.ast), R.P)))

ParseExpression(P) ==
    Bind(ParsePrimary(P), LAMBDA LHS :
        IF IsNull(LHS.ast) THEN LHS ELSE ParseBinOpRHS(0, LHS.ast, LHS.P))

\* while(getNextToken() == tok_indentifier) ArgNames.push_back(identifierStr);
RECURSIVE ParseArgNames(_, _)
ParseArgNames(P, ArgNames) ==
    Bind(getNextToken(P), LAMBDA Q :
        IF Q.CurTok = "tok_indentifier"
        THEN ParseArgNames(Q, Append(ArgNames, Q.identifierStr))
        ELSE [ArgNames |-> ArgNames, P |-> Q])

ParsePrototype(P) ==
    IF P.CurTok # "tok_indentifier"
    THEN LogError(P, "Expected function name in prototype")
    ELSE Bind(getNextToken(P), LAMBDA Q :
             IF Q.CurTok # "("
             THEN LogError(Q, "Expected '(' in prototype")
             ELSE Bind(ParseArgNames(Q, <<>>), LAMBDA a :
                      IF a.P.CurTok # ")"
                      THEN LogError(a.P, "Expected ')' in prototype")
                      ELSE [ast |-> PrototypeAST(P.identifierStr, a.ArgNames),
                            P |-> getNextToken(a.P)]))

ParseDefinition(P) ==
    Bind(ParsePrototype(getNextToken(P)), LAMBDA Proto :
        IF IsNull(Proto.ast) THEN Proto
        ELSE Bind(ParseExpression(Proto.P), LAMBDA E :
                 IF IsNull(E.ast) THEN E
                 ELSE [ast |-> FunctionAST(Proto.ast, E.ast), P |-> E.P]))

ParseExtern(P) == ParsePrototype(getNextToken(P))

AnonName == <<"_","_","a","n","o","n","_","e","x","p","r">>

ParseTopLevelExpr(P) ==
    Bind(ParseExpression(P), LAMBDA E :
        IF IsNull(E.ast) THEN E
        ELSE [ast |-> FunctionAST(PrototypeAST(AnonName, <<>>), E.ast), P |-> E.P])

(***************************************************************************)
(* Code generation.  G is the record of the code generator's globals:      *)
(*   fns          TheModule's function list, in order.  A function is      *)
(*                [id, Name, src, Args, blocks]: id stands for the address *)
(*                of the llvm::Function, Name is its name in the module's  *)
(*                symbol table, src the name Function::Create was asked    *)
(*                for, Args the argument names, blocks the basic blocks    *)
(*                (each a sequence of instructions)                        *)
(*   LastUnique   the counter of the module's symbol table                 *)
(*   nextId       the next fresh address                                   *)
(*   NamedValues  the symbol table, a function from names to values        *)
(*   Builder      the insert point [fn, blk]                               *)
(*   errs         the messages LogErrorV has written, in order             *)
(* A value is a constant, an argument of a function, or the result of an   *)
(* instruction; NullV is nullptr.                                          *)
(***************************************************************************)
\* A 32-bit value is the sequence of its four bytes, lowest first.
Word(n) == <<n % 256, (n \div 256) % 256, (n \div 65536) % 256, (n \div 16777216) % 256>>

WordAdd(a, b) ==
    LET s1 == a[1] + b[1]
        s2 == a[2] + b[2] + (s1 \div 256)
        s3 == a[3] + b[3] + (s2 \div 256)
        s4 == a[4] + b[4] + (s3 \div 256)
    IN  <<s1 % 256, s2 % 256, s3 % 256, s4 % 256>>

WordSub(a, b) ==
    LET d1 == a[1] - b[1]
        d2 == a[2] - b[2] - (IF d1 < 0 THEN 1 ELSE 0)
        d3 == a[3] - b[3] - (IF d2 < 0 THEN 1 ELSE 0)
        d4 == a[4] - b[4] - (IF d3 < 0 THEN 1 ELSE 0)
    IN  <<d1 % 256, d2 % 256, d3 % 256, d4 % 256>>

WordMul(a, b) ==
    LET c1 == a[1] * b[1]
        c2 == a[1] * b[2] + a[2] * b[1] + (c1 \div 256)
        c3 == a[1] * b[3] + a[2] * b[2] + a[3] * b[1] + (c2 \div 256)
        c4 == a[1] * b[4] + a[2] * b[3] + a[3] * b[2] + a[4] * b[1] + (c3 \div 256)
    IN  <<c1 % 256, c2 % 256, c3 % 256, c4 % 256>>

WordULT(a, b) ==
    \E i \in 1..4 : a[i] < b[i] /\ \A j \in (i + 1)..4 : a[j] = b[j]

NullV == [k |-> "Null"]

ConstV(bits, v) == [k |-> "Const", bits |-> bits, v |-> v]

ArgV(fn, idx) == [k |-> "Arg", fn |-> fn, idx |-> idx]

InstV(fn, blk, idx) == [k |-> "Inst", fn |-> fn, blk |-> blk, idx |-> idx]

Instr(op, callee, ops) == [op |-> op, callee |-> callee, ops |-> ops]

LogErrorV(G, Str) == [v |-> NullV, G |-> [G EXCEPT !.errs = Append(@, Str)]]

\* Index in G.fns of the function with address id (0 when it is not in the module).
FnIndex(G, id) ==
    IF \E i \in 1..Len(G.fns) : G.fns[i].id = id
    THEN CHOOSE i \in 1..Len(G.fns) : G.fns[i].id = id
    ELSE 0

\* TheModule->getFunction(Name): the address of the function of that name, 0 for nullptr.
getFunction(G, Name) ==
    IF \E i \in 1..Len(G.fns) : G.fns[i].Name = Name
    THEN G.fns[CHOOSE i \in 1..Len(G.fns) : G.fns[i].Name = Name].id
    ELSE 0

\* IRBuilder::Insert: the instruction goes to the end of the insert block.
Insert(G, ins) ==
    LET i == FnIndex(G, G.Builder.fn)
        b == G.Builder.blk
    IN  [v |-> InstV(G.Builder.fn, b, Len(G.fns[i].blocks[b]) + 1),
         G |-> [G EXCEPT !.fns[i].blocks[b] = Append(@, ins)]]

\* The instructions of the insert block.
InsertBlock(G) == G.fns[FnIndex(G, G.Builder.fn)].blocks[G.Builder.blk]

\* IRBuilder folds an operation on two constants (ConstantFolder) and emits
\* an instruction otherwise.
CreateAdd(G, L, R) ==
    IF L.k = "Const" /\ R.k = "Const"
    THEN [v |-> ConstV(32, WordAdd(L.v, R.v)), G |-> G]
    ELSE Insert(G, Instr("add", 0, <<L, R>>))

CreateSub(G, L, R) ==
    IF L.k = "Const" /\ R.k = "Const"
    THEN [v |-> ConstV(32, WordSub(L.v, R.v)), G |-> G]
    ELSE Insert(G, Instr("sub", 0, <<L, R>>))

CreateMul(G, L, R) ==
    IF L.k = "Const" /\ R.k = "Const"
    THEN [v |-> ConstV(32, WordMul(L.v, R.v)), G |-> G]
    ELSE Insert(G, Instr("mul", 0, <<L, R>>))

CreateICmpULT(G, L, R) ==
    IF L.k = "Const" /\ R.k = "Const"
    THEN [v |-> ConstV(1, IF WordULT(L.v, R.v) THEN 1 ELSE 0), G |-> G]
    ELSE Insert(G, Instr("icmp_ult", 0, <<L, R>>))

CreateZExt(G, V) ==
    IF V.k = "Const"
    THEN [v |-> ConstV(32, Word(V.v)), G |-> G]
    ELSE Insert(G, Instr("zext", 0, <<V>>))

CreateCall(G, CalleeF, ArgsV) == Insert(G, Instr("call", CalleeF, ArgsV))

CreateRet(G, RetVal) == Insert(G, Instr("ret", 0, <<RetVal>>)).G

\* llvm::APInt(32, Val, true): the double goes to uint64_t (its fraction is
\* dropped) and is cut to 32 bits.  The literals of the inputs stay below
\* 2^31, the range of TLC integers.
NumberCodegen(e, G) == [v |-> ConstV(32, Word(e.Val.ip)), G |-> G]

\* NamedValues[Name]: operator[] enters a null value for a name it does not hold.
VariableCodegen(e, G) ==
    IF e.Name \in DOMAIN G.NamedValues /\ G.NamedValues[e.Name].k # "Null"
    THEN [v |-> G.NamedValues[e.Name], G |-> G]
    ELSE LogErrorV([G EXCEPT !.NamedValues =
                        [n \in DOMAIN @ \cup {e.Name} |-> IF n = e.Name THEN NullV ELSE @[n]]],
                   "Unknown variable name")

\* BinaryExprAST::codegen with the operands of the subtraction exchanged.
BinaryOpCodegen_SubSwapped(Op, L, R, G) ==
    CASE Op = "+" -> CreateAdd(G, L, R)
      [] Op = "-" -> CreateSub(G, R, L)
      [] Op = "*" -> CreateMul(G, L, R)
      [] Op = "<" -> Bind(CreateICmpULT(G, L, R), LAMBDA c : CreateZExt(c.G, c.v))
      [] OTHER -> LogErrorV(G, "invalid binary operator")

BinaryOpCodegen(Op, L, R, G) ==
    CASE Op = "+" -> CreateAdd(G, L, R)
      [] Op = "-" -> CreateSub(G, L, R)
      [] Op = "*" -> CreateMul(G, L, R)
      [] Op = "<" -> Bind(CreateICmpULT(G, L, R), LAMBDA c : CreateZExt(c.G, c.v))
      [] OTHER -> LogErrorV(G, "invalid binary operator")

RECURSIVE ExprCodegen(_, _)
RECURSIVE CallArgsCodegen(_, _, _, _)

\* Both operands are generated before either is looked at.
BinaryCodegen(e, G) ==
    Bind(ExprCodegen(e.LHS, G), LAMBDA L :
        Bind(ExprCodegen(e.RHS, L.G), LAMBDA R :
            IF L.v.k = "Null" \/ R.v.k = "Null" THEN [v |-> NullV, G |-> R.G]
            ELSE BinaryOpCodegen(e.Op, L.v, R.v, R.G)))

\* The argument loop of CallExprAST::codegen from argument i on.
\* Returns [ok, ArgsV, G].
CallArgsCodegen(Args, i, ArgsV, G) ==
    IF i > Len(Args) THEN [ok |-> TRUE, ArgsV |-> ArgsV, G |-> G]
    ELSE Bind(ExprCodegen(Args[i], G), LAMBDA a :
             IF a.v.k = "Null" THEN [ok |-> FALSE, ArgsV |-> ArgsV, G |-> a.G]
             ELSE CallArgsCodegen(Args, i + 1, Append(ArgsV, a.v), a.G))

\* CallExprAST::codegen with the arguments generated before the argument
\* count is compared.
CallCodegen_ArgsFirst(e, G) ==
    LET CalleeF == getFunction(G, e.Callee)
    IN  IF CalleeF = 0 THEN LogErrorV(G, "Unknown function referenced")
        ELSE Bind(CallArgsCodegen(e.Args, 1, <<>>, G), LAMBDA a :
                 IF ~a.ok THEN [v |-> NullV, G |-> a.G]
                 ELSE IF Len(G.fns[FnIndex(G, CalleeF)].Args) # Len(e.Args)
                 THEN LogErrorV(a.G, "Incorrect # arguments passed")
                 ELSE CreateCall(a.G, CalleeF, a.ArgsV))

CallCodegen(e, G) ==
    LET CalleeF == getFunction(G, e.Callee)
    IN  IF CalleeF = 0 THEN LogErrorV(G, "Unknown function referenced")
        ELSE IF Len(G.fns[FnIndex(G, CalleeF)].Args) # Len(e.Args)
        THEN LogErrorV(G, "Incorrect # arguments passed")
        ELSE Bind(CallArgsCodegen(e.Args, 1, <<>>, G), LAMBDA a :
                 IF ~a.ok THEN [v |-> NullV, G |-> a.G]
                 ELSE CreateCall(a.G, CalleeF, a.ArgsV))

ExprCodegen(e, G) ==
    CASE e.k = "Num" -> NumberCodegen(e, G)
      [] e.k = "Var" -> VariableCodegen(e, G)
      [] e.k = "Bin" -> BinaryCodegen(e, G)
      [] e.k = "Call" -> CallCodegen(e, G)

\* n in decimal.
RECURSIVE Decimal(_)
Decimal(n) == IF n < 10 THEN <<DigitChar(n)>> ELSE Append(Decimal(n \div 10), DigitChar(n % 10))

\* ValueSymbolTable::makeUniqueName: the next numbers of the table's counter
\* are appended (after sep) until the name is free.  Returns [Name, LastUnique].
RECURSIVE makeUniqueName(_, _, _, _)
makeUniqueName(base, sep, LastUnique, taken) ==
    LET cand == base \o sep \o Decimal(LastUnique + 1)
    IN  IF cand \notin taken THEN [Name |-> cand, LastUnique |-> LastUnique + 1]
        ELSE makeUniqueName(base, sep, LastUnique + 1, taken)

\* The name a value gets in a symbol table where the names in taken are in use.
createValueName(Name, sep, LastUnique, taken) ==
    IF Name \notin taken THEN [Name |-> Name, LastUnique |-> LastUnique]
    ELSE makeUniqueName(Name, sep, LastUnique, taken)

\* for(auto &Arg: F->args()) Arg.setName(Args[Idx++]); in the function's own,
\* still empty, symbol table: the names given to the first arguments are taken.
RECURSIVE SetArgNames(_, _, _)
SetArgNames(Args, named, LastUnique) ==
    IF Len(named) = Len(Args) THEN named
    ELSE Bind(createValueName(Args[Len(named) + 1], <<>>, LastUnique,
                              {named[j] : j \in 1..Len(named)}), LAMBDA n :
             SetArgNames(Args, Append(named, n.Name), n.LastUnique))

\* Function::Create in TheModule and the naming of the arguments.
\* Returns [f, G], f the address of the new function.
PrototypeCodegen(Proto, G) ==
    Bind(createValueName(Proto.Name, <<".">>, G.LastUnique,
                         {G.fns[i].Name : i \in 1..Len(G.fns)}), LAMBDA n :
        [f |-> G.nextId,
         G |-> [G EXCEPT !.fns = Append(@, [id |-> G.nextId, Name |-> n.Name,
                                            src |-> Proto.Name,
                                            Args |-> SetArgNames(Proto.Args, <<>>, 0),
                                            blocks |-> <<>>]),
                         !.LastUnique = n.LastUnique,
                         !.nextId = @ + 1]])

\* Some instruction of another function of the module has the function id as operand.
HasUsers(G, id) ==
    \E i \in 1..Len(G.fns) :
        /\ G.fns[i].id # id
        /\ \E b \in 1..Len(G.fns[i].blocks) :
               \E j \in 1..Len(G.fns[i].blocks[b]) :
                   LET ins == G.fns[i].blocks[b][j]
                   IN  ins.op = "call" /\ ins.callee = id

\* A failure path that leaves the function in the module.
eraseFromParent_Keep(G, id) == G

\* Function::eraseFromParent: the function leaves the module's list and its
\* symbol table and is destroyed.
eraseFromParent(G, id) ==
    [G EXCEPT !.fns = SubSeq(@, 1, FnIndex(G, id) - 1)
                        \o SubSeq(@, FnIndex(G, id) + 1, Len(@))]

\* BasicBlock::Create at the end of TheFunction, Builder->SetInsertPoint, and
\* NamedValues cleared and filled from the names of TheFunction's arguments.
EnterFunction(G, TheFunction) ==
    LET i == FnIndex(G, TheFunction)
        A == G.fns[i].Args
    IN  [G EXCEPT !.fns[i].blocks = Append(@, <<>>),
                  !.Builder = [fn |-> TheFunction, blk |-> Len(G.fns[i].blocks) + 1],
                  !.NamedValues =
                      [n \in {A[j] : j \in 1..Len(A)} |->
                          ArgV(TheFunction, CHOOSE j \in 1..Len(A) : A[j] = n)]]

\* FunctionAST::codegen without the lookup of the name in the module: the
\* prototype is always generated.
FunctionCodegen_NoLookup(Fn, G0) ==
    Bind(PrototypeCodegen(Fn.Proto, G0), LAMBDA TheFunction :
        Bind(ExprCodegen(Fn.Body, EnterFunction(TheFunction.G, TheFunction.f)), LAMBDA RetVal :
            IF RetVal.v.k # "Null"
            THEN [f |-> TheFunction.f, G |-> CreateRet(RetVal.G, RetVal.v), users |-> FALSE,
                  emitted |-> InsertBlock(RetVal.G)]
            ELSE [f |-> 0, G |-> eraseFromParent(RetVal.G, TheFunction.f),
                  users |-> HasUsers(RetVal.G, TheFunction.f),
                  emitted |-> InsertBlock(RetVal.G)]))

\* Returns [f, G, users, emitted]: f is the address of the function, 0 for
\* nullptr; users says that the function was destroyed while instructions of
\* other functions still used it; emitted are the instructions that were in
\* the new block when the generation of the body ended.
FunctionCodegen(Fn, G0) ==
    Bind(IF getFunction(G0, Fn.Proto.Name) = 0
         THEN PrototypeCodegen(Fn.Proto, G0)
         ELSE [f |-> getFunction(G0, Fn.Proto.Name), G |-> G0], LAMBDA TheFunction :
        Bind(ExprCodegen(Fn.Body, EnterFunction(TheFunction.G, TheFunction.f)), LAMBDA RetVal :
            IF RetVal.v.k # "Null"
            THEN [f |-> TheFunction.f, G |-> CreateRet(RetVal.G, RetVal.v), users |-> FALSE,
                  emitted |-> InsertBlock(RetVal.G)]
            ELSE [f |-> 0, G |-> eraseFromParent(RetVal.G, TheFunction.f),
                  users |-> HasUsers(RetVal.G, TheFunction.f),
                  emitted |-> InsertBlock(RetVal.G)]))

(***************************************************************************)
(* Source text of the inputs                                               *)
(***************************************************************************)
Sp == <<" ">>

RECURSIVE JoinSp(_)
JoinSp(ws) ==
    IF ws = <<>> THEN <<>>
    ELSE IF Len(ws) = 1 THEN ws[1]
    ELSE ws[1] \o Sp \o JoinSp(Tail(ws))

ProtoText(Name, Args) == Name \o <<"(">> \o JoinSp(Args) \o <<")">>

DefText(Name, Args, Body) == W_def \o Sp \o ProtoText(Name, Args) \o Sp \o Body

ExternText(Name, Args) == W_extern \o Sp \o ProtoText(Name, Args)

N_f == <<"f">>

N_g == <<"g">>

N_x == <<"x">>

N_y == <<"y">>

\* The top-level forms the inputs of Spec are made of.
Forms ==
    << DefText(N_f, <<N_x>>, <<"x">>),                              \*  1  def f(x) x
       DefText(N_g, <<N_x>>, <<"f","(","x",")">>),                  \*  2  def g(x) f(x)
       DefText(N_f, <<N_x>>, <<"x","*","x","+","y">>),              \*  3  def f(x) x*x+y
       ExternText(N_f, <<N_x>>),                                    \*  4  extern f(x)
       ExternText(N_f, <<N_y>>),                                    \*  5  extern f(y)
       DefText(N_g, <<N_x, N_y>>, <<"x","/","y">>),                 \*  6  def g(x y) x/y
       <<"f","(","1",",","2",")">>,                                 \*  7  f(1,2)
       <<"g","(","1",")">>,                                         \*  8  g(1)
       <<";">>,                                                     \*  9  ;
       DefText(N_g, <<>>, <<>>),                                    \* 10  def g()
       DefText(N_g, <<N_x>>, <<"f","(","x","+","x",",","y",")">>)   \* 11  def g(x) f(x+x,y)
    >>

\* The most forms in an input of Spec.
MaxForms == 3

FormSeqs == UNION {[1..n -> 1..Len(Forms)] : n \in 0..MaxForms}

RECURSIVE FormsText(_)
FormsText(fs) ==
    IF fs = <<>> THEN <<>>
    ELSE IF Len(fs) = 1 THEN Forms[fs[1]]
    ELSE Forms[fs[1]] \o Sp \o FormsText(Tail(fs))

N_bad == <<"b","a","d">>

N_good == <<"g","o","o","d">>

N_foo == <<"f","o","o">>

N_a == <<"a">>

N_b == <<"b">>

N_average == <<"a","v","e","r","a","g","e">>

\* Inputs quoted in the specification.
Examples ==
    << \* 1  def bad( ) def good(x) x
       W_def \o Sp \o N_bad \o <<"("," ",")">> \o Sp \o DefText(N_good, <<N_x>>, <<"x">>),
       \* 2  extern foo(a b) def foo(a b) a+b
       ExternText(N_foo, <<N_a, N_b>>) \o Sp \o DefText(N_foo, <<N_a, N_b>>, <<"a","+","b">>),
       \* 3  def average(x y) (x + y) * 5
       DefText(N_average, <<N_x, N_y>>, <<"(","x"," ","+"," ","y",")"," ","*"," ","5">>),
       \* 4  1+2*3
       <<"1","+","2","*","3">>,
       \* 5  (1+2)*3
       <<"(","1","+","2",")","*","3">>,
       \* 6  1-2-3
       <<"1","-","2","-","3">>
    >>

(***************************************************************************)
(* Expressions p0 op1 p1 ... opn pn for the inputs of SpecExpr.  The       *)
(* primary at place i (from 0) is x, 5, y, x, 5, ... by its place, except  *)
(* that the one at place paren - 1 is (x+y); paren = 0 leaves out the      *)
(* parentheses.  ctx places the expression: as the body of def f(x y), as  *)
(* that body after extern f(x y), or as a top-level expression before ;.   *)
(***************************************************************************)
\* The most operators in an expression of SpecExpr.
MaxOps == 3

Operators == {"<", "+", "-", "*"}

Atoms == <<N_x, <<"5">>, N_y>>

PrimText(t, i) ==
    IF t.paren = i + 1 THEN <<"(","x","+","y",")">> ELSE Atoms[(i % 3) + 1]

RECURSIVE ExprText(_, _)
ExprText(t, i) ==
    IF i = Len(t.ops) THEN PrimText(t, i)
    ELSE PrimText(t, i) \o <<t.ops[i + 1]>> \o ExprText(t, i + 1)

ExprTests ==
    {t \in [kind : {"expr"}, ctx : {"def", "externdef", "top"},
            ops : UNION {[1..n -> Operators] : n \in 0..MaxOps},
            paren : 0..(MaxOps + 1)] : t.paren <= Len(t.ops) + 1}

(***************************************************************************)
(* The program.  test describes the text given on stdin and does not       *)
(* change; last records what the last iteration of MainLoop did: the       *)
(* handler, the tree it parsed, the function code generation returned,     *)
(* and the module and the length of stderr before it.                      *)
(***************************************************************************)
VARIABLES inp, nextChar, identifierStr, numVal, CurTok, stderr,
          TheModule, LastUnique, nextId, NamedValues, Builder,
          pc, test, last

vars == <<inp, nextChar, identifierStr, numVal, CurTok, stderr,
          TheModule, LastUnique, nextId, NamedValues, Builder, pc, test, last>>

TextOf(t) ==
    CASE t.kind = "forms" -> FormsText(t.forms)
      [] t.kind = "example" -> Examples[t.n]
      [] t.kind = "expr" ->
            CASE t.ctx = "def" -> DefText(N_f, <<N_x, N_y>>, ExprText(t, 0))
              [] t.ctx = "externdef" ->
                    ExternText(N_f, <<N_x, N_y>>) \o Sp
                        \o DefText(N_f, <<N_x, N_y>>, ExprText(t, 0))
              [] t.ctx = "top" -> ExprText(t, 0) \o <<";">>

Pnow == [inp |-> inp, nextChar |-> nextChar, identifierStr |-> identifierStr,
         numVal |-> numVal, CurTok |-> CurTok, errs |-> stderr]

Gnow(errs) == [fns |-> TheModule, LastUnique |-> LastUnique, nextId |-> nextId,
               NamedValues |-> NamedValues, Builder |-> Builder, errs |-> errs]

SetP(P) ==
    /\ inp' = P.inp
    /\ nextChar' = P.nextChar
    /\ identifierStr' = P.identifierStr
    /\ numVal' = P.numVal
    /\ CurTok' = P.CurTok

SetG(G) ==
    /\ TheModule' = G.fns
    /\ LastUnique' = G.LastUnique
    /\ nextId' = G.nextId
    /\ NamedValues' = G.NamedValues
    /\ Builder' = G.Builder
    /\ stderr' = G.errs

Last(op, ast, f, emitted) ==
    [op |-> op, ast |-> ast, f |-> f, emitted |-> emitted,
     pre |-> TheModule, nerr |-> Len(stderr)]

InitWith(Tests) ==
    /\ test \in Tests
    /\ inp = TextOf(test)
    /\ nextChar = " "
    /\ identifierStr = <<>>
    /\ numVal = [ip |-> 0, fp |-> <<>>]
    /\ CurTok = "NUL"
    /\ stderr = <<>>
    /\ TheModule = <<>>
    /\ LastUnique = 0
    /\ nextId = 1
    /\ NamedValues = <<>>
    /\ Builder = [fn |-> 0, blk |-> 0]
    /\ pc = "start"
    /\ last = [op |-> "none", ast |-> NullAST, f |-> 0, emitted |-> <<>>,
               pre |-> <<>>, nerr |-> 0]

ExampleTests == {[kind |-> "example", n |-> i] : i \in 1..Len(Examples)}

Init == InitWith({[kind |-> "forms", forms |-> fs] : fs \in FormSeqs} \cup ExampleTests)

InitExpr == InitWith(ExprTests \cup ExampleTests)

\* main() up to the call of MainLoop: the first token is read.
Start ==
    /\ pc = "start"
    /\ SetP(getNextToken(Pnow))
    /\ pc' = "loop"
    /\ UNCHANGED <<stderr, TheModule, LastUnique, nextId, NamedValues, Builder, test, last>>

MainLoopEof ==
    /\ pc = "loop"
    /\ CurTok = "tok_eof"
    /\ pc' = "done"
    /\ last' = Last("eof", NullAST, 0, <<>>)
    /\ UNCHANGED <<inp, nextChar, identifierStr, numVal, CurTok, stderr,
                   TheModule, LastUnique, nextId, NamedValues, Builder, test>>

MainLoopSemicolon ==
    /\ pc = "loop"
    /\ CurTok = ";"
    /\ SetP(getNextToken(Pnow))
    /\ last' = Last("semicolon", NullAST, 0, <<>>)
    /\ UNCHANGED <<stderr, TheModule, LastUnique, nextId, NamedValues, Builder, pc, test>>

\* The handler found no tree: one token is skipped.
SkipToken(op, P) ==
    /\ SetP(getNextToken(P))
    /\ stderr' = P.errs
    /\ last' = Last(op, NullAST, 0, <<>>)
    /\ UNCHANGED <<TheModule, LastUnique, nextId, NamedValues, Builder, pc, test>>

\* Destroying a function that instructions of other functions still use is
\* undefined: an LLVM built with assertions stops the program in ~Value, one
\* built without goes on with the stale operands.
HandleDefinition ==
    /\ pc = "loop"
    /\ CurTok = "tok_def"
    /\ Bind(ParseDefinition(Pnow), LAMBDA FnAST :
           IF IsNull(FnAST.ast) THEN SkipToken("def", FnAST.P)
           ELSE Bind(FunctionCodegen(FnAST.ast, Gnow(FnAST.P.errs)), LAMBDA FnIR :
                    /\ SetP(FnAST.P)
                    /\ SetG(FnIR.G)
                    /\ last' = Last("def", FnAST.ast, FnIR.f, FnIR.emitted)
                    /\ \/ pc' = "loop"
                       \/ FnIR.users /\ pc' = "aborted"
                    /\ UNCHANGED test))

HandleExtern ==
    /\ pc = "loop"
    /\ CurTok = "tok_extern"
    /\ Bind(ParseExtern(Pnow), LAMBDA ProtoAST :
           IF IsNull(ProtoAST.ast) THEN SkipToken("extern", ProtoAST.P)
           ELSE Bind(PrototypeCodegen(ProtoAST.ast, Gnow(ProtoAST.P.errs)), LAMBDA FnIR :
                    /\ SetP(ProtoAST.P)
                    /\ SetG(FnIR.G)
                    /\ last' = Last("extern", ProtoAST.ast, FnIR.f, <<>>)
                    /\ UNCHANGED <<pc, test>>))

\* A generated anonymous function is erased again after it is printed.
HandleTopLevelExpression ==
    /\ pc = "loop"
    /\ CurTok \notin {"tok_eof", ";", "tok_def", "tok_extern"}
    /\ Bind(ParseTopLevelExpr(Pnow), LAMBDA FnAST :
           IF IsNull(FnAST.ast) THEN SkipToken("expr", FnAST.P)
           ELSE Bind(FunctionCodegen(FnAST.ast, Gnow(FnAST.P.errs)), LAMBDA FnIR :
                    /\ SetP(FnAST.P)
                    /\ SetG(IF FnIR.f # 0 THEN eraseFromParent(FnIR.G, FnIR.f) ELSE FnIR.G)
                    /\ last' = Last("expr", FnAST.ast, FnIR.f, FnIR.emitted)
                    /\ UNCHANGED <<pc, test>>))

Next ==
    \/ Start
    \/ MainLoopEof
    \/ MainLoopSemicolon
    \/ HandleDefinition
    \/ HandleExtern
    \/ HandleTopLevelExpression

Spec == Init /\ [][Next]_vars

SpecExpr == InitExpr /\ [][Next]_vars

(***************************************************************************)
(* What the properties below speak of                                      *)
(***************************************************************************)
Range(seq) == {seq[i] : i \in 1..Len(seq)}

\* The functions of module M that have the name Name.
Named(M, Name) == {i \in 1..Len(M) : M[i].Name = Name}

\* M holds a function Name with a body.
HasBody(M, Name) == \E i \in Named(M, Name) : M[i].blocks # <<>>

\* The messages written by the last iteration of MainLoop.
NewErrors == SubSeq(stderr, last.nerr + 1, Len(stderr))

\* The last iteration parsed a function (a def or a top-level expression).
Parsed(op) == last.op = op /\ ~IsNull(last.ast)

\* The variables of an expression without calls.
RECURSIVE VarsOf(_)
VarsOf(e) ==
    CASE e.k = "Var" -> {e.Name}
      [] e.k = "Bin" -> VarsOf(e.LHS) \cup VarsOf(e.RHS)
      [] OTHER -> {}

RECURSIVE NoCalls(_)
NoCalls(e) ==
    CASE e.k = "Call" -> FALSE
      [] e.k = "Bin" -> NoCalls(e.LHS) /\ NoCalls(e.RHS)
      [] OTHER -> TRUE

\* A body that names only the parameters params and calls only functions of
\* M, each with as many arguments as it has parameters.
RECURSIVE ValidBody(_, _, _)
ValidBody(e, params, M) ==
    CASE e.k = "Num" -> TRUE
      [] e.k = "Var" -> e.Name \in Range(params)
      [] e.k = "Bin" -> /\ e.Op \in {"<", "+", "-", "*"}
                        /\ ValidBody(e.LHS, params, M)
                        /\ ValidBody(e.RHS, params, M)
      [] e.k = "Call" -> /\ \E i \in Named(M, e.Callee) : Len(M[i].Args) = Len(e.Args)
                         /\ \A j \in 1..Len(e.Args) : ValidBody(e.Args[j], params, M)

\* The value a function with the blocks of F returns for the arguments args
\* (32-bit values), for a body without calls: the operand of the ret of the
\* entry block.
RECURSIVE ValueOf(_, _, _)
ValueOf(v, F, args) ==
    CASE v.k = "Const" -> v.v
      [] v.k = "Arg" -> args[v.idx]
      [] v.k = "Inst" ->
            LET ins == F.blocks[v.blk][v.idx]
            IN  CASE ins.op = "add" -> WordAdd(ValueOf(ins.ops[1], F, args), ValueOf(ins.ops[2], F, args))
                  [] ins.op = "sub" -> WordSub(ValueOf(ins.ops[1], F, args), ValueOf(ins.ops[2], F, args))
                  [] ins.op = "mul" -> WordMul(ValueOf(ins.ops[1], F, args), ValueOf(ins.ops[2], F, args))

Returns(F, args) ==
    LET entry == F.blocks[1]
        r == CHOOSE j \in 1..Len(entry) :
                 entry[j].op = "ret" /\ \A i \in 1..(j - 1) : entry[i].op # "ret"
    IN  ValueOf(entry[r].ops[1], F, args)

\* The tree of p0 op1 p1 ... opn pn by the table < 10, + 20, - 20, * 40: the
\* last operator of the lowest precedence is the root.
TablePrec(op) == CASE op = "<" -> 10 [] op = "+" -> 20 [] op = "-" -> 20 [] op = "*" -> 40

Lit(n) == [k |-> "Num", Val |-> [ip |-> n, fp |-> <<>>]]

Ref(Name) == [k |-> "Var", Name |-> Name]

Tree(Op, L, R) == [k |-> "Bin", Op |-> Op, LHS |-> L, RHS |-> R]

PrimTree(t, i) ==
    IF t.paren = i + 1 THEN Tree("+", Ref(N_x), Ref(N_y))
    ELSE CASE i % 3 = 0 -> Ref(N_x) [] i % 3 = 1 -> Lit(5) [] i % 3 = 2 -> Ref(N_y)

RECURSIVE TableTree(_, _, _)
TableTree(t, lo, hi) ==
    IF lo = hi THEN PrimTree(t, lo)
    ELSE LET k == CHOOSE k \in (lo + 1)..hi :
                      /\ \A j \in (lo + 1)..hi : TablePrec(t.ops[k]) <= TablePrec(t.ops[j])
                      /\ \A j \in (k + 1)..hi : TablePrec(t.ops[k]) < TablePrec(t.ops[j])
         IN  Tree(t.ops[k], TableTree(t, lo, k - 1), TableTree(t, k, hi))

\* The 32-bit value of a tree of +, -, * with x and y bound.
RECURSIVE TreeValue(_, _, _)
TreeValue(e, x, y) ==
    CASE e.k = "Num" -> Word(e.Val.ip)
      [] e.k = "Var" -> IF e.Name = N_x THEN x ELSE y
      [] e.k = "Bin" ->
            CASE e.Op = "+" -> WordAdd(TreeValue(e.LHS, x, y), TreeValue(e.RHS, x, y))
              [] e.Op = "-" -> WordSub(TreeValue(e.LHS, x, y), TreeValue(e.RHS, x, y))
              [] e.Op = "*" -> WordMul(TreeValue(e.LHS, x, y), TreeValue(e.RHS, x, y))

ArgValues == {Word(0), Word(1), Word(10), Word(20), <<255, 255, 255, 255>>}

(***************************************************************************)
(* Properties                                                              *)
(***************************************************************************)

\* C1 (as claimed): failure isolation.  When the input is a syntactically
\* bad form followed by a well-formed def (def g() then def f(x) x; def bad( )
\* then def good(x) x), the module holds the function of the def, with a
\* body, when MainLoop returns.  The code does not do this: the token skipped
\* after the bad form is the def keyword of the form that follows.
C1_FailureIsolation ==
    /\ (pc = "done" /\ test = [kind |-> "forms", forms |-> <<10, 1>>])
           => HasBody(TheModule, N_f)
    /\ (pc = "done" /\ test = [kind |-> "example", n |-> 1])
           => HasBody(TheModule, N_good)

\* C2 (as claimed): unsupported operator.  When the input holds
\* def g(x y) x/y and no other form that could define g, the
\* invalid-binary-operator error has been written and no function g is in
\* the module when MainLoop returns.  The code does not do this: the parser
\* ends the body before the operator.
C2_UnsupportedOperator ==
    (/\ pc = "done"
     /\ test.kind = "forms"
     /\ 6 \in Range(test.forms)
     /\ 2 \notin Range(test.forms)
     /\ 11 \notin Range(test.forms))
        => /\ "invalid binary operator" \in Range(stderr)
           /\ Named(TheModule, N_g) = {}

\* The case of C3: the def just handled names a function that the module held
\* as a declaration with the same parameters, and its body is valid.
C3_Case ==
    /\ Parsed("def")
    /\ \E i \in Named(last.pre, last.ast.Proto.Name) :
           /\ last.pre[i].blocks = <<>>
           /\ last.pre[i].Args = last.ast.Proto.Args
    /\ ValidBody(last.ast.Body, last.ast.Proto.Args, last.pre)

\* C3: redefinition after extern.  A def of a name that the module holds as a
\* declaration with the same parameters, with a valid body, succeeds: the
\* function returned is the declared one, it now has one block that ends in
\* a return, no function was added to the module, and exactly one function
\* has the name.
C3_DefAfterExtern ==
    C3_Case =>
        /\ last.f # 0
        /\ Len(TheModule) = Len(last.pre)
        /\ Cardinality(Named(TheModule, last.ast.Proto.Name)) = 1
        /\ \A i \in Named(TheModule, last.ast.Proto.Name) :
               /\ TheModule[i].id = last.f
               /\ TheModule[i].id = last.pre[i].id
               /\ Len(TheModule[i].blocks) = 1
               /\ TheModule[i].blocks[1] # <<>>
               /\ TheModule[i].blocks[1][Len(TheModule[i].blocks[1])].op = "ret"

\* extern foo(a b) then def foo(a b) a+b has been handled.
C3_Witness ==
    /\ C3_Case
    /\ test = [kind |-> "example", n |-> 2]
    /\ HasBody(TheModule, N_foo)

\* The case of C4: the last iteration handled the expression of the input.
C4_Case ==
    /\ test.kind = "expr"
    /\ last.op = IF test.ctx = "top" THEN "expr" ELSE "def"

\* C4: precedence climbing.  The tree parsed for p0 op1 p1 ... opn pn is the
\* tree of the table < 10, + 20, - 20, * 40, in which a higher precedence
\* binds tighter and equal precedences group to the left; 1+2*3 gives
\* 1+(2*3), (1+2)*3 gives (1+2)*3 and 1-2-3 gives (1-2)-3.
C4_PrecedenceClimbing ==
    /\ C4_Case =>
           /\ ~IsNull(last.ast)
           /\ last.ast.Body = TableTree(test, 0, Len(test.ops))
    /\ (last.op = "expr" /\ test = [kind |-> "example", n |-> 4]) =>
           /\ ~IsNull(last.ast)
           /\ last.ast.Body = Tree("+", Lit(1), Tree("*", Lit(2), Lit(3)))
    /\ (last.op = "expr" /\ test = [kind |-> "example", n |-> 5]) =>
           /\ ~IsNull(last.ast)
           /\ last.ast.Body = Tree("*", Tree("+", Lit(1), Lit(2)), Lit(3))
    /\ (last.op = "expr" /\ test = [kind |-> "example", n |-> 6]) =>
           /\ ~IsNull(last.ast)
           /\ last.ast.Body = Tree("-", Tree("-", Lit(1), Lit(2)), Lit(3))

\* x+5*y-x has been parsed as (x+(5*y))-x.
C4_Witness ==
    /\ C4_Case
    /\ test.ops = <<"+", "*", "-">>
    /\ test.paren = 0
    /\ last.ast.Body = Tree("-", Tree("+", Ref(N_x), Tree("*", Lit(5), Ref(N_y))), Ref(N_x))

\* The case of C5: MainLoop has returned from an input def f(x y) body with a
\* body of x, y, 5, parentheses and +, -, *.
C5_Case ==
    /\ pc = "done"
    /\ test.kind = "expr"
    /\ test.ctx = "def"
    /\ Range(test.ops) \subseteq {"+", "-", "*"}

\* C5: end-to-end value of a definition.  The function left in the module for
\* def f(x y) body returns, for all arguments, the 32-bit value of the body
\* with x bound to the first and y to the second argument; the function left
\* for def average(x y) (x + y) * 5 returns 150 for 10 and 20.
C5_EndToEndValue ==
    /\ C5_Case =>
           /\ Cardinality(Named(TheModule, N_f)) = 1
           /\ \A i \in Named(TheModule, N_f) :
                  /\ TheModule[i].Args = <<N_x, N_y>>
                  /\ Len(TheModule[i].blocks) = 1
                  /\ \A x \in ArgValues : \A y \in ArgValues :
                         Returns(TheModule[i], <<x, y>>)
                             = TreeValue(TableTree(test, 0, Len(test.ops)), x, y)
    /\ (pc = "done" /\ test = [kind |-> "example", n |-> 3]) =>
           /\ Cardinality(Named(TheModule, N_average)) = 1
           /\ \A i \in Named(TheModule, N_average) :
                  Returns(TheModule[i], <<Word(10), Word(20)>>) = Word(150)

\* def f(x y) (x+y)*5-y is in the module and returns 150 - 20 for 10 and 20.
C5_Witness ==
    /\ C5_Case
    /\ test.ops = <<"*", "-">>
    /\ test.paren = 1
    /\ \E i \in Named(TheModule, N_f) :
           Returns(TheModule[i], <<Word(10), Word(20)>>) = Word(130)

\* The parameter count of the function Callee at the time the body of the
\* function just handled was generated: that of the function of this name in
\* the module before, else that of the function being defined; -1 when there
\* was no function of the name.
C6_CalleeArity(Callee) ==
    IF Named(last.pre, Callee) # {}
    THEN Len(last.pre[CHOOSE i \in Named(last.pre, Callee) : TRUE].Args)
    ELSE IF Callee = last.ast.Proto.Name THEN Len(last.ast.Proto.Args)
    ELSE -1

\* The case of C6: the body of the function just handled is a call.
C6_Case ==
    /\ Parsed("def") \/ Parsed("expr")
    /\ last.ast.Body.k = "Call"

\* C6: arity checking.  A call whose argument count differs from the
\* parameter count of the function of that name fails with the
\* argument-count error alone, and generates no argument and no instruction;
\* a call of a name that is not in the module fails with the
\* unknown-function error alone.
C6_ArityChecking ==
    C6_Case =>
        /\ C6_CalleeArity(last.ast.Body.Callee) = -1 =>
               /\ last.f = 0
               /\ NewErrors = <<"Unknown function referenced">>
               /\ last.emitted = <<>>
        /\ C6_CalleeArity(last.ast.Body.Callee) \notin {-1, Len(last.ast.Body.Args)} =>
               /\ last.f = 0
               /\ NewErrors = <<"Incorrect # arguments passed">>
               /\ last.emitted = <<>>

\* def g(x) f(x+x,y) has been handled while f had one parameter.
C6_Witness ==
    /\ C6_Case
    /\ last.op = "def"
    /\ Len(last.ast.Body.Args) = 2
    /\ last.ast.Body.Args[1].k = "Bin"
    /\ C6_CalleeArity(last.ast.Body.Callee) = 1
    /\ NewErrors = <<"Incorrect # arguments passed">>

\* C7 (as claimed): variable resolution is scoped to the definition.  A def
\* whose body has no calls is generated successfully exactly if every
\* variable of the body is a parameter of the def's own prototype.  The code
\* does not do this: after extern f(y), def f(x) x fails, because the names
\* are taken from the function already in the module.
C7_VariableScope ==
    (Parsed("def") /\ NoCalls(last.ast.Body)) =>
        (last.f # 0 <=> VarsOf(last.ast.Body) \subseteq Range(last.ast.Proto.Args))

\* The case of C8: the generation of the body of the function just handled
\* wrote an error.
C8_Case ==
    /\ Parsed("def") \/ Parsed("expr")
    /\ NewErrors # <<>>

\* C8: a failed definition leaves no artifact.  When the generation of the
\* body fails, the result is absent and the module holds no function with the
\* name of the definition.
C8_NoArtifact ==
    C8_Case =>
        /\ last.f = 0
        /\ Named(TheModule, last.ast.Proto.Name) = {}

\* A def failed after instructions had been emitted into a function that the
\* module held before.
C8_Witness ==
    /\ C8_Case
    /\ last.op = "def"
    /\ last.emitted # <<>>
    /\ Named(last.pre, last.ast.Proto.Name) # {}

\* C9 (as claimed): prototype code generation declares or retrieves.  No two
\* functions of the module were created for the same source name.  The code
\* does not do this: PrototypeAST::codegen always creates a function, which
\* LLVM renames when the name is taken.
C9_OneFunctionPerName ==
    \A i \in 1..Len(TheModule) : \A j \in 1..Len(TheModule) :
        i # j => TheModule[i].src # TheModule[j].src

\* C10 (as claimed): no dangling callee.  Every call instruction of a function
\* of the module calls a function of the module.  The code does not do this:
\* a failed redefinition erases a function that other bodies call.
C10_NoDanglingCallee ==
    \A i \in 1..Len(TheModule) :
        \A b \in 1..Len(TheModule[i].blocks) :
            \A j \in 1..Len(TheModule[i].blocks[b]) :
                TheModule[i].blocks[b][j].op = "call" =>
                    \E k \in 1..Len(TheModule) :
                        TheModule[k].id = TheModule[i].blocks[b][j].callee

\* C11 (as claimed): a function never holds more than one body.  Every
\* function of the module that has a body has exactly one block, and the
\* block ends in its only return.  The code does not do this: a second def
\* of a name finds the function of the first and appends a block to it.
C11_OneBody ==
    \A i \in 1..Len(TheModule) :
        TheModule[i].blocks # <<>> =>
            /\ Len(TheModule[i].blocks) = 1
            /\ TheModule[i].blocks[1] # <<>>
            /\ \A j \in 1..Len(TheModule[i].blocks[1]) :
                   TheModule[i].blocks[1][j].op = "ret"
                       <=> j = Len(TheModule[i].blocks[1])

\* What is left to read: the characters not yet read, the character held in
\* nextChar and the token held in CurTok.
Remaining ==
    Len(inp) + (IF nextChar = EOF THEN 0 ELSE 1) + (IF CurTok = "tok_eof" THEN 0 ELSE 1)

\* First part of C12: an iteration of MainLoop that does not start at the end
\* token consumes at least one token, on success and on the skip-one-token
\* path alike.
C12_TokenConsumed ==
    [][(pc = "loop" /\ CurTok # "tok_eof") => Remaining' < Remaining]_vars

\* Second part of C12: once the input is exhausted, every call of the lexer
\* returns the end token.
C12_EofSticky ==
    (inp = <<>> /\ nextChar = EOF) =>
        /\ getok(Pnow).tok = "tok_eof"
        /\ getok(getok(Pnow).P).tok = "tok_eof"
        /\ getok(getok(Pnow).P).P = getok(Pnow).P

====
